---- MODULE Spec2Model ----
(***************************************************************************)
(* Nichifier: the monetisation engine (app/services/monetisation_service)  *)
(* and the subscription upsert endpoint (app/routers/subscriptions) that   *)
(* drives it, the admin forms (app/routers/admin) and the niche routes     *)
(* (app/routers/niches, app/services/niche_service), over the relational   *)
(* store they read and write.                                              *)
(*                                                                         *)
(* Decimals.  A Python Decimal d is the integer d * 10^6 (a fixed point    *)
(* with six decimals): a two-decimal amount is a multiple of Cent, and the *)
(* product of a two-decimal amount with a two-decimal percentage divided   *)
(* by 100, which has at most six decimals, is exact.                       *)
(***************************************************************************)
EXTENDS Integers, Sequences, FiniteSets, TLC

VARIABLES
    settings_table,        \* rows of PlatformMonetisationSettings, in insertion order
    creator_plans,         \* rows of CreatorPlan, in insertion order (id = position)
    creator_subscriptions, \* rows of CreatorSubscription
    niches,                \* rows of Niche
    subscriptions,         \* committed rows of Subscription, in insertion order
    newsletter_issues,     \* rows of NewsletterIssue
    report_issues,         \* rows of ReportIssue
    news_articles,         \* rows of NewsArticle
    last,                  \* the last request served and its outcome
    calc,                  \* a call of a function of the service and its result
    sessions               \* the requests in flight, one per client session

vars == <<settings_table, creator_plans, creator_subscriptions, niches,
          subscriptions, newsletter_issues, report_issues, news_articles,
          last, calc, sessions>>

\* The published content of the niches.
content == <<newsletter_issues, report_issues, news_articles>>

store == <<settings_table, creator_plans, creator_subscriptions, niches, subscriptions,
           content>>

----------------------------------------------------------------------------
(* Decimal arithmetic *)

\* Decimal("0.01"), the quantum of _quantize_amount, in units of 10^-6.
Cent == 10000

\* Decimal("100"), the divisor of the fee percentage.
Hundred == 100

\* Literals: Dec2(1500) is Decimal("15.00"), Dec3(10005) is Decimal("10.005").
Dec2(hundredths) == hundredths * Cent

Dec3(thousandths) == thousandths * (Cent \div 10)

Abs(x) == IF x < 0 THEN -x ELSE x

DecMax(a, b) == IF a >= b THEN a ELSE b

\* Rounding to whole cents that drops the fraction instead of rounding half up.
QuantizeTruncating(value) ==
    IF value < 0 THEN -((Abs(value) \div Cent) * Cent)
    ELSE (value \div Cent) * Cent

\* value.quantize(Decimal("0.01"), rounding=ROUND_HALF_UP): to the nearest
\* cent, a tie going away from zero.
_quantize_amount(value) ==
    LET magnitude == ((2 * Abs(value) + Cent) \div (2 * Cent)) * Cent
    IN  IF value < 0 THEN -magnitude ELSE magnitude

\* gross_amount * (percent / Decimal("100")) for a two-decimal gross_amount
\* and a two-decimal percent: (g/10^4)*(p/10^4) units of 10^-6, exactly.
PercentOf(gross_amount, percent) ==
    (gross_amount \div Cent) * ((percent \div Hundred) \div Hundred)

----------------------------------------------------------------------------
(* Rows.  None is Python's None / an absent row. *)

None == [id |-> 0]

IsNone(x) == x = None

----------------------------------------------------------------------------
(* The pure calculators *)

\* A totals calculator that charges the newsletter whether or not it is wanted.
TotalsAlwaysNewsletter(newsletter_price, report_price, wants_newsletter, wants_report) ==
    _quantize_amount(newsletter_price + (IF wants_report THEN report_price ELSE 0))

\* calculate_subscription_totals: gross starts at 0.00, gains each wanted
\* product's price, and is quantized.
calculate_subscription_totals(newsletter_price, report_price, wants_newsletter, wants_report) ==
    LET gross0 == 0
        gross1 == IF wants_newsletter THEN gross0 + newsletter_price ELSE gross0
        gross2 == IF wants_report THEN gross1 + report_price ELSE gross1
    IN  _quantize_amount(gross2)

\* effective_fee_percent of calculate_revenue_split: the settings' percentage,
\* replaced by max(0.00, percentage - discount) when a plan with a truthy
\* (non-zero) discount is supplied.
EffectiveFeePercent(settings, creator_plan) ==
    IF ~IsNone(creator_plan) /\ creator_plan.platform_fee_discount_percent # 0
    THEN DecMax(0, settings.platform_fee_percent - creator_plan.platform_fee_discount_percent)
    ELSE settings.platform_fee_percent

\* A split that charges the minimum fee on a zero gross amount (guard < 0).
SplitChargingZeroGross(gross_amount, settings, creator_plan) ==
    IF gross_amount < 0 THEN <<0, 0>>
    ELSE LET fee == _quantize_amount(DecMax(
                        PercentOf(gross_amount, EffectiveFeePercent(settings, creator_plan)),
                        settings.minimum_platform_fee))
         IN  <<fee, _quantize_amount(gross_amount - fee)>>

\* A split that derives the payout from the fee before it is rounded.
SplitPayoutFromRawFee(gross_amount, settings, creator_plan) ==
    IF gross_amount <= 0 THEN <<0, 0>>
    ELSE LET raw == DecMax(
                        PercentOf(gross_amount, EffectiveFeePercent(settings, creator_plan)),
                        settings.minimum_platform_fee)
         IN  <<_quantize_amount(raw), _quantize_amount(gross_amount - raw)>>

\* A split that takes the floor on the undiscounted fee and subtracts the
\* discount's share afterwards.
SplitDiscountAfterFloor(gross_amount, settings, creator_plan) ==
    IF gross_amount <= 0 THEN <<0, 0>>
    ELSE LET floored == DecMax(PercentOf(gross_amount, settings.platform_fee_percent),
                               settings.minimum_platform_fee)
             rebate == IF IsNone(creator_plan) THEN 0
                       ELSE PercentOf(gross_amount,
                                      creator_plan.platform_fee_discount_percent)
             fee == _quantize_amount(floored - rebate)
         IN  <<fee, _quantize_amount(gross_amount - fee)>>

\* calculate_revenue_split: <<platform_fee, creator_payout>>.
calculate_revenue_split(gross_amount, settings, creator_plan) ==
    IF gross_amount <= 0 THEN <<0, 0>>
    ELSE LET effective_fee_percent == EffectiveFeePercent(settings, creator_plan)
             platform_fee0 == PercentOf(gross_amount, effective_fee_percent)
             platform_fee1 == DecMax(platform_fee0, settings.minimum_platform_fee)
             platform_fee == _quantize_amount(platform_fee1)
             creator_amount == _quantize_amount(gross_amount - platform_fee)
         IN  <<platform_fee, creator_amount>>

----------------------------------------------------------------------------
(* Strings.  A slug is a sequence of one-character strings; a currency code *)
(* is a string drawn from a small alphabet of codes.                        *)

LowerChar(c) ==
    CASE c = "P" -> "p"
      [] c = "T" -> "t"
      [] OTHER -> c

\* str.strip(): leading and trailing spaces removed.
RECURSIVE StripLeft(_)
StripLeft(s) == IF s # <<>> /\ Head(s) = " " THEN StripLeft(Tail(s)) ELSE s

RECURSIVE StripRight(_)
StripRight(s) ==
    IF s # <<>> /\ s[Len(s)] = " " THEN StripRight(SubSeq(s, 1, Len(s) - 1)) ELSE s

Strip(s) == StripLeft(StripRight(s))

\* str.lower()
Lower(s) == [i \in 1..Len(s) |-> LowerChar(s[i])]

\* str.replace(" ", "-")
ReplaceSpaces(s) == [i \in 1..Len(s) |-> IF s[i] = " " THEN "-" ELSE s[i]]

\* A normalisation that leaves the surrounding spaces in before replacing.
NormalizeSlugWithoutStrip(slug) == ReplaceSpaces(Lower(slug))

\* slug.strip().lower().replace(" ", "-")
NormalizeSlug(slug) == ReplaceSpaces(Lower(Strip(slug)))

\* str.upper() on a currency code.
Upper(code) ==
    CASE code = "gbp" -> "GBP"
      [] code = "usd" -> "USD"
      [] code = "eur" -> "EUR"
      [] OTHER -> code

----------------------------------------------------------------------------
(* Tables *)

\* select(...).where(pred) is SelectSeq(table, pred): the rows of the table
\* that satisfy pred, in order.

\* session.get(Model, id) / select by primary key: the row or None.
ById(table, id) ==
    IF \E i \in 1..Len(table) : table[i].id = id
    THEN table[CHOOSE i \in 1..Len(table) : table[i].id = id]
    ELSE None

\* A replacement that adds r behind the rows instead of overwriting its row.
ReplaceByAppending(table, r) == Append(table, r)

\* The table with the row of r's id replaced by r.
Replace(table, r) == [i \in 1..Len(table) |-> IF table[i].id = r.id THEN r ELSE table[i]]

\* The id an INSERT gives the row: an integer primary key, one above the
\* largest id stored (the id of a deleted last row is given again).
NextId(table) ==
    IF table = <<>> THEN 1
    ELSE LET ids == {table[i].id : i \in 1..Len(table)}
         IN  (CHOOSE id \in ids : \A other \in ids : other <= id) + 1

\* DEFAULT_PLATFORM_FEE_PERCENT, DEFAULT_PLATFORM_MIN_FEE, DEFAULT_CURRENCY
DEFAULT_PLATFORM_FEE_PERCENT == Dec2(1500)

DEFAULT_PLATFORM_MIN_FEE == Dec2(100)

DEFAULT_CURRENCY == "GBP"

\* A get-or-create that inserts a row of defaults without looking for one.
GetOrCreateAlwaysInserts(table) ==
    LET settings == [id |-> NextId(table),
                     platform_fee_percent |-> DEFAULT_PLATFORM_FEE_PERCENT,
                     minimum_platform_fee |-> DEFAULT_PLATFORM_MIN_FEE,
                     currency_code |-> DEFAULT_CURRENCY]
    IN  <<Append(table, settings), settings, TRUE>>

\* get_or_create_platform_settings, as <<settings table after, row returned,
\* created>>: the first row, or a new committed row holding the defaults.
get_or_create_platform_settings(table) ==
    IF table # <<>>
    THEN <<table, table[1], FALSE>>
    ELSE LET settings == [id |-> NextId(table),
                          platform_fee_percent |-> DEFAULT_PLATFORM_FEE_PERCENT,
                          minimum_platform_fee |-> DEFAULT_PLATFORM_MIN_FEE,
                          currency_code |-> DEFAULT_CURRENCY]
         IN  <<Append(table, settings), settings, TRUE>>

ActiveStatuses == {"active", "trialing"}

\* A lookup that takes the user's rows whatever their status.
GetActiveIgnoringStatus(table, user_id) ==
    LET rows == SelectSeq(table, LAMBDA r : r.user_id = user_id)
    IN  CASE Len(rows) = 0 -> <<"none", None>>
          [] Len(rows) = 1 -> <<"one", rows[1]>>
          [] OTHER -> <<"MultipleResultsFound", None>>

\* get_active_creator_subscription: the user's rows whose status is active or
\* trialing; scalar_one_or_none() gives None for no row, the row for one row,
\* and raises MultipleResultsFound for more.  <<outcome, row>>.
get_active_creator_subscription(table, user_id) ==
    LET rows == SelectSeq(table, LAMBDA r : r.user_id = user_id /\ r.status \in ActiveStatuses)
    IN  CASE Len(rows) = 0 -> <<"none", None>>
          [] Len(rows) = 1 -> <<"one", rows[1]>>
          [] OTHER -> <<"MultipleResultsFound", None>>

----------------------------------------------------------------------------
(* Subscriptions *)

\* A status rule that counts a zero gross amount as active.
MetricsActiveOnZero(subscription, gross_amount, settings, creator_plan, currency_code, billing_cadence) ==
    LET split == calculate_revenue_split(gross_amount, settings, creator_plan)
    IN  [subscription EXCEPT
            !.currency_code = currency_code,
            !.billing_cadence = billing_cadence,
            !.gross_amount = _quantize_amount(gross_amount),
            !.platform_fee_amount = split[1],
            !.creator_payout_amount = split[2],
            !.status = IF gross_amount >= 0 THEN "active" ELSE "trialing",
            !.metrics_written = TRUE]

\* A metrics updater that stores the payout clamped at zero.
MetricsClampedPayout(subscription, gross_amount, settings, creator_plan, currency_code, billing_cadence) ==
    LET split == calculate_revenue_split(gross_amount, settings, creator_plan)
    IN  [subscription EXCEPT
            !.currency_code = currency_code,
            !.billing_cadence = billing_cadence,
            !.gross_amount = _quantize_amount(gross_amount),
            !.platform_fee_amount = split[1],
            !.creator_payout_amount = DecMax(0, split[2]),
            !.status = IF gross_amount > 0 THEN "active" ELSE "trialing",
            !.metrics_written = TRUE]

\* ensure_subscription_metrics: the subscription row as the function leaves it
\* (its commit is part of the calling action).
ensure_subscription_metrics(subscription, gross_amount, settings, creator_plan, currency_code, billing_cadence) ==
    LET split == calculate_revenue_split(gross_amount, settings, creator_plan)
        platform_fee == split[1]
        creator_payout == split[2]
    IN  [subscription EXCEPT
            !.currency_code = currency_code,
            !.billing_cadence = billing_cadence,
            !.gross_amount = _quantize_amount(gross_amount),
            !.platform_fee_amount = platform_fee,
            !.creator_payout_amount = creator_payout,
            !.status = IF gross_amount > 0 THEN "active" ELSE "trialing",
            !.metrics_written = TRUE]

\* A cadence rule that tests wants_report before the bundle.
CadenceReportFirst(niche, wants_newsletter, wants_report) ==
    IF wants_report THEN niche.report_cadence
    ELSE IF wants_newsletter /\ wants_report THEN "bundle"
    ELSE niche.newsletter_cadence

\* The billing cadence upsert_subscription derives from the request.
BillingCadence(niche, wants_newsletter, wants_report) ==
    IF wants_newsletter /\ wants_report THEN "bundle"
    ELSE IF wants_report THEN niche.report_cadence
    ELSE niche.newsletter_cadence

\* Subscription(user_id=..., niche_id=..., wants_newsletter=..., wants_report=...,
\* currency_code=...) once flushed.  The metric columns take the defaults of
\* the table, which app/models.py does not spell out: the row is marked
\* metrics_written = FALSE and its metric columns are read by no definition
\* until ensure_subscription_metrics has written them.
NewSubscription(id, user_id, niche_id, wants_newsletter, wants_report, currency_code) ==
    [id |-> id, user_id |-> user_id, niche_id |-> niche_id,
     wants_newsletter |-> wants_newsletter, wants_report |-> wants_report,
     currency_code |-> currency_code,
     billing_cadence |-> "column default", gross_amount |-> 0,
     platform_fee_amount |-> 0, creator_payout_amount |-> 0,
     status |-> "column default", metrics_written |-> FALSE]

Served(op, user_id, niche_id, outcome) ==
    [op |-> op, user_id |-> user_id, niche_id |-> niche_id, outcome |-> outcome]

\* POST /subscriptions/manage.  One request in its own session: what is
\* flushed becomes visible to others only at a commit, and the session's
\* pending work is rolled back when the request ends in an exception.
upsert_subscription(user_id, niche_id, wants_newsletter, wants_report) ==
    LET found == SelectSeq(subscriptions,
                       LAMBDA r : r.user_id = user_id /\ r.niche_id = niche_id)
        niche == ById(niches, niche_id)
    IN
    IF Len(found) > 1
    THEN \* scalar_one_or_none() raises MultipleResultsFound
         /\ last' = Served("upsert_subscription", user_id, niche_id, "MultipleResultsFound")
         /\ UNCHANGED <<store, calc, sessions>>
    ELSE IF IsNone(niche)
    THEN /\ last' = Served("upsert_subscription", user_id, niche_id, "404")
         /\ UNCHANGED <<store, calc, sessions>>
    ELSE
    LET subscription ==
            IF Len(found) = 0
            THEN NewSubscription(NextId(subscriptions), user_id, niche_id,
                                 wants_newsletter, wants_report, niche.currency_code)
            ELSE [found[1] EXCEPT !.wants_newsletter = wants_newsletter,
                                  !.wants_report = wants_report,
                                  !.currency_code = niche.currency_code]
        \* session.flush(): pending in this session
        flushed == IF Len(found) = 0 THEN Append(subscriptions, subscription)
                   ELSE Replace(subscriptions, subscription)
        \* Decimal(str(price or 0)) of a NUMERIC(10, 2) column is the price
        gross_amount == calculate_subscription_totals(
                            niche.newsletter_price, niche.report_price,
                            wants_newsletter, wants_report)
        got == get_or_create_platform_settings(settings_table)
        settings == got[2]
        \* the commit inside get_or_create_platform_settings commits the flush
        committed == IF got[3] THEN flushed ELSE subscriptions
        owner == IF niche.owner_id # 0
                 THEN get_active_creator_subscription(creator_subscriptions, niche.owner_id)
                 ELSE <<"none", None>>
    IN
    IF owner[1] = "MultipleResultsFound"
    THEN /\ settings_table' = got[1]
         /\ subscriptions' = committed
         /\ last' = Served("upsert_subscription", user_id, niche_id, "MultipleResultsFound")
         /\ UNCHANGED <<creator_plans, creator_subscriptions, niches, calc, sessions, content>>
    ELSE
    LET creator_plan == IF owner[1] = "one" THEN ById(creator_plans, owner[2].plan_id)
                        ELSE None
        billing_cadence == BillingCadence(niche, wants_newsletter, wants_report)
        updated == ensure_subscription_metrics(subscription, gross_amount, settings,
                                               creator_plan, niche.currency_code,
                                               billing_cadence)
    IN  /\ settings_table' = got[1]
        /\ subscriptions' = Replace(flushed, updated)
        /\ last' = Served("upsert_subscription", user_id, niche_id, "303")
        /\ UNCHANGED <<creator_plans, creator_subscriptions, niches, calc, sessions, content>>

----------------------------------------------------------------------------
(* Administration *)

\* update_platform_settings, reached from POST /admin/monetisation/settings
\* with any decimals the form strings parse to.
update_platform_settings(platform_fee_percent, minimum_platform_fee, currency_code) ==
    LET got == get_or_create_platform_settings(settings_table)
        settings == [got[2] EXCEPT
                        !.platform_fee_percent = _quantize_amount(platform_fee_percent),
                        !.minimum_platform_fee = _quantize_amount(minimum_platform_fee),
                        !.currency_code = Upper(currency_code)]
    IN  /\ settings_table' = Replace(got[1], settings)
        /\ last' = Served("update_platform_settings", 0, 0, "303")
        /\ UNCHANGED <<creator_plans, creator_subscriptions, niches, subscriptions, calc, sessions, content>>

\* A clamp at zero instead of one.
ClampNichesAtZero(max_niches) == IF max_niches < 0 THEN 0 ELSE max_niches

\* max(1, max_niches)
ClampNiches(max_niches) == IF max_niches < 1 THEN 1 ELSE max_niches

\* A slug column without unique index: no slug is ever refused.
SlugNeverTaken(table, slug) == FALSE

\* The unique index on the slug column of the creator plans: the INSERT of a
\* row whose slug is stored already violates it.
SlugTaken(table, slug) == \E i \in 1..Len(table) : table[i].slug = slug

\* A plan upsert that creates the plan when plan_id matches no stored plan.
UpsertCreatingUnknownPlan(plan_id, slug, monthly_fee, currency_code, max_niches, platform_fee_discount_percent) ==
    LET found == ById(creator_plans, plan_id)
        written == [id |-> IF IsNone(found) THEN NextId(creator_plans) ELSE found.id,
                    slug |-> IF IsNone(found) THEN NormalizeSlug(slug) ELSE found.slug,
                    monthly_fee |-> _quantize_amount(monthly_fee),
                    currency_code |-> Upper(currency_code),
                    max_niches |-> ClampNiches(max_niches),
                    platform_fee_discount_percent |->
                        _quantize_amount(platform_fee_discount_percent)]
    IN  /\ creator_plans' = IF IsNone(found) THEN Append(creator_plans, written)
                            ELSE Replace(creator_plans, written)
        /\ last' = Served("upsert_creator_plan", 0, 0, "303")
        /\ UNCHANGED <<settings_table, creator_subscriptions, niches, subscriptions, calc, sessions, content>>

\* upsert_creator_plan, reached from POST /admin/monetisation/plan; plan_id 0
\* is plan_id None.  The free-text columns (display_name, description,
\* stripe_price_id, feature_summary) are stripped and stored and read by
\* nothing else; they are left out.
upsert_creator_plan(plan_id, slug, monthly_fee, currency_code, max_niches, platform_fee_discount_percent) ==
    LET normalized_slug == NormalizeSlug(slug)
        plan == IF plan_id = 0
                THEN [id |-> NextId(creator_plans), slug |-> normalized_slug]
                ELSE ById(creator_plans, plan_id)
    IN
    IF plan_id # 0 /\ IsNone(plan)
    THEN \* ValueError("Creator plan not found"), answered 404
         /\ last' = Served("upsert_creator_plan", 0, 0, "404")
         /\ UNCHANGED <<store, calc, sessions>>
    ELSE IF plan_id = 0 /\ SlugTaken(creator_plans, normalized_slug)
    THEN \* session.commit() raises IntegrityError, which nothing catches: the
         \* session is rolled back
         /\ last' = Served("upsert_creator_plan", 0, 0, "IntegrityError")
         /\ UNCHANGED <<store, calc, sessions>>
    ELSE
    LET written == [id |-> plan.id,
                    slug |-> plan.slug,
                    monthly_fee |-> _quantize_amount(monthly_fee),
                    currency_code |-> Upper(currency_code),
                    max_niches |-> ClampNiches(max_niches),
                    platform_fee_discount_percent |->
                        _quantize_amount(platform_fee_discount_percent)]
    IN  /\ creator_plans' = IF plan_id = 0 THEN Append(creator_plans, written)
                            ELSE Replace(creator_plans, written)
        /\ last' = Served("upsert_creator_plan", 0, 0, "303")
        /\ UNCHANGED <<settings_table, creator_subscriptions, niches, subscriptions, calc, sessions, content>>

----------------------------------------------------------------------------
(* The store the requests run against *)

\* Bounds of the model.
MaxPlans == 2

\* The subscribers that send requests, and the niche ids they name (one more
\* than there are niches, so that an unknown niche is asked for).
Subscribers == {1}

RequestedNicheIds == 1..(Len(niches) + 1)

PlanSlug == <<" ", "P", "r", "o", " ", "T", " ">>

\* Niche 1 is owned by user 2, who holds one active creator subscription;
\* niche 2 is owned by user 3, who holds an active and a trialing creator
\* subscription at once; niche 3 has no owner.
InitialNiches ==
    << [id |-> 1, owner_id |-> 2, newsletter_price |-> Dec2(50),
        report_price |-> Dec2(1000), currency_code |-> "GBP",
        newsletter_cadence |-> "weekly", report_cadence |-> "quarterly"],
       [id |-> 2, owner_id |-> 3, newsletter_price |-> Dec2(500),
        report_price |-> 0, currency_code |-> "USD",
        newsletter_cadence |-> "monthly", report_cadence |-> "annual"],
       [id |-> 3, owner_id |-> 0, newsletter_price |-> Dec2(10),
        report_price |-> Dec2(-100), currency_code |-> "GBP",
        newsletter_cadence |-> "daily", report_cadence |-> "monthly"] >>

InitialCreatorPlans ==
    << [id |-> 1, slug |-> <<"p", "r", "o">>, monthly_fee |-> Dec2(900),
        currency_code |-> "GBP", max_niches |-> 1,
        platform_fee_discount_percent |-> Dec2(500)] >>

InitialCreatorSubscriptions ==
    << [id |-> 1, user_id |-> 2, plan_id |-> 1, status |-> "canceled", started_at |-> 1],
       [id |-> 2, user_id |-> 2, plan_id |-> 1, status |-> "active", started_at |-> 2],
       [id |-> 3, user_id |-> 3, plan_id |-> 1, status |-> "active", started_at |-> 1],
       [id |-> 4, user_id |-> 3, plan_id |-> 1, status |-> "trialing", started_at |-> 2] >>

\* What the admin forms send.
\* <<platform_fee_percent, minimum_platform_fee>>
SettingsInputs == {<<Dec3(300005), Dec3(1004)>>}

DiscountInputs == {Dec2(1500), Dec2(-500)}

Idle == Served("none", 0, 0, "none")

NoCall ==
    [fn |-> "none", gross_amount |-> 0, settings |-> None, creator_plan |-> None,
     newsletter_price |-> 0, report_price |-> 0,
     wants_newsletter |-> FALSE, wants_report |-> FALSE, result |-> <<>>]

InitStore ==
    /\ settings_table = <<>>
    /\ creator_plans = InitialCreatorPlans
    /\ creator_subscriptions = InitialCreatorSubscriptions
    /\ niches = InitialNiches
    /\ subscriptions = <<>>
    /\ newsletter_issues = <<>>
    /\ report_issues = <<>>
    /\ news_articles = <<>>

\* No request in flight: the requests of this specification are served one
\* after the other.
NoSessions == <<>>

Init ==
    /\ InitStore
    /\ last = Idle
    /\ calc = NoCall
    /\ sessions = NoSessions

UpsertSubscription ==
    \E user_id \in Subscribers, niche_id \in RequestedNicheIds,
       wants_newsletter \in BOOLEAN, wants_report \in BOOLEAN :
        upsert_subscription(user_id, niche_id, wants_newsletter, wants_report)

UpdatePlatformSettings ==
    \E input \in SettingsInputs :
        update_platform_settings(input[1], input[2], "usd")

UpsertCreatorPlan ==
    \E plan_id \in 0..(MaxPlans + 1), discount \in DiscountInputs :
        /\ plan_id = 0 => Len(creator_plans) < MaxPlans
        /\ upsert_creator_plan(plan_id, PlanSlug, Dec2(900), "gbp", 1, discount)

Next ==
    \/ UpsertSubscription
    \/ UpdatePlatformSettings
    \/ UpsertCreatorPlan

Spec == Init /\ [][Next]_vars

----------------------------------------------------------------------------
(* The pure calculators, called on drawn inputs *)

GrossInputs ==
    {Dec2(-50), 0, Dec2(1), Dec2(3), Dec2(50), Dec2(500), Dec2(1000), Dec2(1050)}

SettingsRecords ==
    {[id |-> 1, platform_fee_percent |-> percent, minimum_platform_fee |-> minimum,
      currency_code |-> "GBP"] :
        percent \in {0, Dec2(250), Dec2(1500), Dec2(10000), Dec2(30000), Dec2(-500)},
        minimum \in {0, Dec2(1), Dec2(100), Dec2(-100)}}

PlanRecords ==
    {[id |-> 1, slug |-> <<"p", "r", "o">>, monthly_fee |-> Dec2(900),
      currency_code |-> "GBP", max_niches |-> 1,
      platform_fee_discount_percent |-> discount] :
        discount \in {0, Dec2(500), Dec2(1500), Dec2(2000), Dec2(-500)}}

PriceInputs == {0, Dec2(1000), Dec2(2500), Dec3(10005), Dec3(4), Dec2(-100)}

SplitCalls ==
    {[NoCall EXCEPT !.fn = "calculate_revenue_split", !.gross_amount = g,
                    !.settings = s, !.creator_plan = p] :
        g \in GrossInputs, s \in SettingsRecords, p \in PlanRecords \cup {None}}

TotalsCalls ==
    {[NoCall EXCEPT !.fn = "calculate_subscription_totals",
                    !.newsletter_price = n, !.report_price = r,
                    !.wants_newsletter = wn, !.wants_report = wr] :
        n \in PriceInputs, r \in PriceInputs, wn \in BOOLEAN, wr \in BOOLEAN}

InitCalc ==
    /\ InitStore
    /\ last = Idle
    /\ calc \in SplitCalls \cup TotalsCalls
    /\ sessions = NoSessions

CallRevenueSplit ==
    /\ calc.fn = "calculate_revenue_split"
    /\ calc.result = <<>>
    /\ calc' = [calc EXCEPT !.result =
                    calculate_revenue_split(calc.gross_amount, calc.settings,
                                            calc.creator_plan)]
    /\ UNCHANGED <<store, last, sessions>>

CallSubscriptionTotals ==
    /\ calc.fn = "calculate_subscription_totals"
    /\ calc.result = <<>>
    /\ calc' = [calc EXCEPT !.result =
                    <<calculate_subscription_totals(calc.newsletter_price,
                                                    calc.report_price,
                                                    calc.wants_newsletter,
                                                    calc.wants_report)>>]
    /\ UNCHANGED <<store, last, sessions>>

NextCalc ==
    \/ CallRevenueSplit
    \/ CallSubscriptionTotals

SpecCalc == InitCalc /\ [][NextCalc]_vars

----------------------------------------------------------------------------
(* Claims about the pure calculators (SpecCalc) *)

SplitReturned == calc.fn = "calculate_revenue_split" /\ calc.result # <<>>

TotalsReturned == calc.fn = "calculate_subscription_totals" /\ calc.result # <<>>

\* r is x rounded half up to two decimals: a whole number of cents, at most
\* half a cent from x, and the farther from zero of the two on a tie.
IsRoundedHalfUp(r, x) ==
    /\ r % Cent = 0
    /\ 2 * Abs(r - x) <= Cent
    /\ 2 * Abs(r - x) = Cent => Abs(r) > Abs(x)

\* C2: for every gross_amount > 0, every settings record and every optional
\* plan, calculate_revenue_split returns a fee and a payout whose sum is the
\* gross amount exactly, both being two-decimal values.
C2_SplitSumsToGross ==
    (SplitReturned /\ calc.gross_amount > 0) =>
        /\ calc.result[1] + calc.result[2] = calc.gross_amount
        /\ calc.result[1] % Cent = 0
        /\ calc.result[2] % Cent = 0

\* C2 witness: a split of a positive gross amount has returned whose
\* percentage fee (15% of 10.50 = 1.575) had to be rounded.
C2_Witness ==
    /\ SplitReturned
    /\ calc.gross_amount = Dec2(1050)
    /\ calc.settings.platform_fee_percent = Dec2(1500)
    /\ calc.settings.minimum_platform_fee = Dec2(100)
    /\ IsNone(calc.creator_plan)
    /\ calc.result = <<Dec2(158), Dec2(892)>>

\* C3: for every gross_amount > 0 the returned platform fee is at least the
\* settings' minimum_platform_fee, whatever discount the plan carries.
C3_FeeAtLeastMinimum ==
    (SplitReturned /\ calc.gross_amount > 0) =>
        calc.result[1] >= calc.settings.minimum_platform_fee

\* C3 witness: a split has returned for a plan whose discount takes the
\* percentage fee below the minimum, and the minimum was charged.
C3_Witness ==
    /\ SplitReturned
    /\ calc.gross_amount = Dec2(1000)
    /\ calc.settings.platform_fee_percent = Dec2(1500)
    /\ calc.settings.minimum_platform_fee = Dec2(100)
    /\ ~IsNone(calc.creator_plan)
    /\ calc.creator_plan.platform_fee_discount_percent = Dec2(1500)
    /\ calc.result[1] = Dec2(100)

\* The effective percentage as C4 words it.
C4_e(settings, plan) ==
    IF IsNone(plan) THEN settings.platform_fee_percent
    ELSE IF plan.platform_fee_discount_percent = 0 THEN settings.platform_fee_percent
    ELSE IF settings.platform_fee_percent - plan.platform_fee_discount_percent > 0
    THEN settings.platform_fee_percent - plan.platform_fee_discount_percent
    ELSE 0

C5_NoFeeOnNonPositiveGross ==
    (SplitReturned /\ calc.gross_amount <= 0) => calc.result = <<0, 0>>

\* C5 witness: a split of a zero gross amount returned under settings whose
\* minimum fee is 1.00, and no fee was charged.
C5_Witness ==
    /\ SplitReturned
    /\ calc.gross_amount = 0
    /\ calc.settings.minimum_platform_fee = Dec2(100)
    /\ calc.result = <<0, 0>>

----------------------------------------------------------------------------
(* Claims about the stored subscriptions (Spec) *)

\* The rows ensure_subscription_metrics has written.
MeasuredRows ==
    {subscriptions[i] : i \in {j \in 1..Len(subscriptions) : subscriptions[j].metrics_written}}

\* The last request was a subscription upsert that ran to its redirect.
UpsertServed == last.op = "upsert_subscription" /\ last.outcome = "303"

\* The row that upsert wrote, the niche it names, and the settings and the
\* creator plan it read.
ServedRow ==
    SelectSeq(subscriptions,
          LAMBDA r : r.user_id = last.user_id /\ r.niche_id = last.niche_id)[1]

ServedNiche == ById(niches, last.niche_id)

ServedSettings == settings_table[1]

ServedPlan ==
    LET owned == SelectSeq(creator_subscriptions,
                       LAMBDA r : r.user_id = ServedNiche.owner_id
                                  /\ r.status \in {"active", "trialing"})
    IN  IF ServedNiche.owner_id # 0 /\ Len(owned) = 1
        THEN ById(creator_plans, owned[1].plan_id)
        ELSE None

C6_EffectivePercentWithinBase ==
    \A i \in 1..Len(settings_table), j \in 1..Len(creator_plans) :
        /\ EffectiveFeePercent(settings_table[i], creator_plans[j])
               <= settings_table[i].platform_fee_percent
        /\ EffectiveFeePercent(settings_table[i], creator_plans[j]) >= 0

\* C7 as claimed: whenever 0 < gross_amount < minimum_platform_fee the split
\* is (minimum, gross - minimum), a negative payout that is stored unclamped
\* on the subscription.
C7_MinimumChargedBelowMinimum ==
    (/\ UpsertServed
     /\ ServedRow.gross_amount > 0
     /\ ServedRow.gross_amount < ServedSettings.minimum_platform_fee) =>
        /\ ServedRow.platform_fee_amount = ServedSettings.minimum_platform_fee
        /\ ServedRow.creator_payout_amount =
               ServedRow.gross_amount - ServedSettings.minimum_platform_fee
        /\ ServedRow.creator_payout_amount < 0

\* C7 as amended: whenever 0 < gross_amount < minimum_platform_fee and the
\* percentage fee gross * e / 100 is at most the minimum (as it is for every
\* effective percentage e <= 100), the split is (minimum, gross - minimum),
\* a negative payout that is stored unclamped on the subscription.
C7_MinimumChargedWhenPercentageFeeBelowIt ==
    (/\ UpsertServed
     /\ ServedRow.gross_amount > 0
     /\ ServedRow.gross_amount < ServedSettings.minimum_platform_fee
     /\ PercentOf(ServedRow.gross_amount, EffectiveFeePercent(ServedSettings, ServedPlan))
            <= ServedSettings.minimum_platform_fee) =>
        /\ ServedRow.platform_fee_amount = ServedSettings.minimum_platform_fee
        /\ ServedRow.creator_payout_amount =
               ServedRow.gross_amount - ServedSettings.minimum_platform_fee
        /\ ServedRow.creator_payout_amount < 0

\* C7 witness: a subscription of gross 0.50 was upserted under a minimum fee
\* of 1.00 and stores the fee 1.00 and the payout -0.50.
C7_Witness ==
    /\ UpsertServed
    /\ ServedSettings.minimum_platform_fee = Dec2(100)
    /\ ServedRow.gross_amount = Dec2(50)
    /\ ServedRow.platform_fee_amount = Dec2(100)
    /\ ServedRow.creator_payout_amount = Dec2(-50)

C10_BillingCadence ==
    UpsertServed =>
        /\ (ServedRow.wants_newsletter /\ ServedRow.wants_report)
               => ServedRow.billing_cadence = "bundle"
        /\ (~ServedRow.wants_newsletter /\ ServedRow.wants_report)
               => ServedRow.billing_cadence = ServedNiche.report_cadence
        /\ ~ServedRow.wants_report
               => ServedRow.billing_cadence = ServedNiche.newsletter_cadence

\* C10 witness: an upsert wanting neither product completed and stored the
\* niche's newsletter cadence, next to a subscription to both products
\* billed as a bundle.
C10_Witness ==
    /\ UpsertServed
    /\ ~ServedRow.wants_newsletter
    /\ ~ServedRow.wants_report
    /\ ServedRow.billing_cadence = "daily"
    /\ \E r \in MeasuredRows :
           r.wants_newsletter /\ r.wants_report /\ r.billing_cadence = "bundle"

----------------------------------------------------------------------------
(* The platform settings, read and updated one request after the other *)

\* GET /admin/monetisation: get_or_create_platform_settings, then
\* list_creator_plans, which only reads.  calc records the call and the row
\* it returned.
monetisation_overview ==
    LET got == get_or_create_platform_settings(settings_table)
    IN  /\ settings_table' = got[1]
        /\ last' = Served("monetisation_overview", 0, 0, "200")
        /\ calc' = [NoCall EXCEPT !.fn = "get_or_create_platform_settings",
                                  !.settings = got[2],
                                  !.result = <<got[3]>>]
        /\ UNCHANGED <<creator_plans, creator_subscriptions, niches, subscriptions, sessions, content>>

\* What Decimal(platform_fee_percent) and Decimal(minimum_platform_fee) give
\* for the form strings "-5", "0", "12.345", "300.005" and "-1", "0", "1.004".
PercentFormInputs == {Dec2(-500), 0, Dec3(12345), Dec3(300005)}

MinimumFormInputs == {Dec2(-100), 0, Dec3(1004)}

CurrencyFormInputs == {"usd", "EUR"}

MonetisationOverview == monetisation_overview

MonetisationUpdateSettings ==
    \E platform_fee_percent \in PercentFormInputs,
       minimum_platform_fee \in MinimumFormInputs,
       currency_code \in CurrencyFormInputs :
        update_platform_settings(platform_fee_percent, minimum_platform_fee, currency_code)

NextSettings ==
    \/ MonetisationOverview
    \/ MonetisationUpdateSettings

SpecSettings == Init /\ [][NextSettings]_vars

----------------------------------------------------------------------------
(* Claims about the platform settings (SpecSettings) *)

\* The row of defaults: 15.00 percent, a minimum of 1.00, "GBP".
C11_Defaults ==
    [id |-> 1, platform_fee_percent |-> 15000000, minimum_platform_fee |-> 1000000,
     currency_code |-> "GBP"]

\* C11: served one after the other, the first get_or_create_platform_settings
\* on an empty store creates one row holding the defaults 15.00, 1.00, "GBP";
\* a later call returns the one stored row and changes no row; and once the
\* settings have been accessed there is exactly one settings row after every
\* step, whatever reads and updates follow.
C11_SingleSettingsRow ==
    [][ /\ (last'.op = "monetisation_overview" /\ settings_table = <<>>) =>
               /\ settings_table' = <<C11_Defaults>>
               /\ calc'.settings = C11_Defaults
        /\ (last'.op = "monetisation_overview" /\ settings_table # <<>>) =>
               /\ calc'.settings = settings_table[1]
               /\ store' = store
        /\ last'.op \in {"monetisation_overview", "update_platform_settings"} =>
               Len(settings_table') = 1
        /\ settings_table # <<>> => Len(settings_table') = 1
      ]_vars

\* C11 witness: a read that follows an update returned the updated row, the
\* only one there is, and created nothing.
C11_Witness ==
    /\ last.op = "monetisation_overview"
    /\ calc.fn = "get_or_create_platform_settings"
    /\ calc.result = <<FALSE>>
    /\ settings_table = <<calc.settings>>
    /\ calc.settings.platform_fee_percent = Dec2(30001)
    /\ calc.settings.currency_code = "USD"

\* C13: in every state reached through update_platform_settings, called from
\* the admin form with any decimals its strings parse to, the stored settings
\* row has platform_fee_percent >= 0 and minimum_platform_fee >= 0.
C13_StoredSettingsNonNegative ==
    \A i \in 1..Len(settings_table) :
        /\ settings_table[i].platform_fee_percent >= 0
        /\ settings_table[i].minimum_platform_fee >= 0

----------------------------------------------------------------------------
(* Requests in flight: each in its own AsyncSession, one statement at a time *)

\* The client sessions that serve requests at the same time.
ClientSessions == {1, 2}

\* The requests one client session serves, one after the other.
MaxRequests == 2

\* The niches the concurrent requests name.
ConcurrentNicheIds == {1, 2}

\* The columns upsert_subscription assigns before its flush, and the columns
\* ensure_subscription_metrics assigns before its commit.
FlagColumns == {"wants_newsletter", "wants_report", "currency_code"}

MetricColumns ==
    {"currency_code", "billing_cadence", "gross_amount", "platform_fee_amount",
     "creator_payout_amount", "status", "metrics_written"}

\* The unit of work puts in an UPDATE the attributes whose value differs from
\* the value the session loaded or last flushed.
ChangedColumns(object, persisted, columns) ==
    {c \in columns : object[c] # persisted[c]}

\* UPDATE ... SET columns = object's WHERE id = object.id, on a table.
UpdateColumns(table, object, columns) ==
    [i \in 1..Len(table) |->
        IF table[i].id = object.id
        THEN [c \in DOMAIN table[i] |-> IF c \in columns THEN object[c] ELSE table[i][c]]
        ELSE table[i]]

\* A session between requests.  op, outcome, subscription and loaded_id keep
\* what its last request was, what it answered, the row object it held when
\* it ended and the id of the row its select had found.
IdleSession ==
    [pc |-> "idle", op |-> "none", niche_id |-> 0,
     wants_newsletter |-> FALSE, wants_report |-> FALSE,
     subscription |-> None,   \* the Subscription object of the request
     persisted |-> None,      \* its attributes as loaded or last flushed
     loaded_id |-> 0,         \* id of the row the select found, 0 for none
     writing |-> FALSE,       \* inside a write transaction of the database
     tx |-> <<>>,             \* the subscriptions table inside that transaction
     settings |-> None, creator_plan |-> None,
     wrote |-> FALSE,         \* has sent an INSERT or UPDATE in this request
     served |-> 0,            \* requests the session has taken up
     outcome |-> "none"]

\* SQLite admits one write transaction at a time: a session's first INSERT or
\* UPDATE waits until no other session is inside one.
MayWrite(s) == \A t \in ClientSessions \ {s} : ~sessions[t].writing

\* The request ends: the session is closed, which rolls back what it has not
\* committed.
Ended(session, outcome) ==
    [IdleSession EXCEPT !.served = session.served, !.outcome = outcome,
                        !.op = session.op,
                        !.subscription = session.subscription,
                        !.loaded_id = session.loaded_id]

\* upsert_subscription up to its flush: the select of the subscription, the
\* get of the niche, and the Subscription object created or modified in the
\* session.  (Niches do not change here, so the two reads are one step.)
select_subscription(s, user_id, niche_id, wants_newsletter, wants_report) ==
    LET found == SelectSeq(subscriptions,
                       LAMBDA r : r.user_id = user_id /\ r.niche_id = niche_id)
        niche == ById(niches, niche_id)
        request == [IdleSession EXCEPT !.op = "upsert_subscription",
                                       !.served = sessions[s].served + 1,
                                       !.niche_id = niche_id,
                                       !.wants_newsletter = wants_newsletter,
                                       !.wants_report = wants_report]
    IN  /\ sessions[s].pc = "idle"
        /\ sessions[s].served < MaxRequests
        /\ sessions' = [sessions EXCEPT ![s] =
               IF Len(found) > 1 THEN Ended(request, "MultipleResultsFound")
               ELSE IF IsNone(niche) THEN Ended(request, "404")
               ELSE IF Len(found) = 0
               THEN [request EXCEPT
                        !.pc = "flush",
                        !.subscription =
                            NewSubscription(0, user_id, niche_id, wants_newsletter,
                                            wants_report, niche.currency_code)]
               ELSE [request EXCEPT
                        !.pc = "flush",
                        !.persisted = found[1],
                        !.loaded_id = found[1].id,
                        !.subscription =
                            [found[1] EXCEPT !.wants_newsletter = wants_newsletter,
                                             !.wants_report = wants_report,
                                             !.currency_code = niche.currency_code]]]
        /\ UNCHANGED <<store, last, calc>>

\* await session.flush(): the INSERT of the new row, or the UPDATE of the
\* attributes that changed, inside a write transaction that stays open.
flush_subscription(s) ==
    LET session == sessions[s]
        inserting == session.loaded_id = 0
        object == IF inserting
                  THEN [session.subscription EXCEPT !.id = NextId(subscriptions)]
                  ELSE session.subscription
        columns == IF inserting THEN {}
                   ELSE ChangedColumns(object, session.persisted, FlagColumns)
        sends == inserting \/ columns # {}
    IN  /\ session.pc = "flush"
        /\ sends => MayWrite(s)
        /\ sessions' = [sessions EXCEPT ![s] =
               [session EXCEPT
                   !.pc = "select_settings",
                   !.subscription = object,
                   !.persisted = object,
                   !.writing = sends,
                   !.tx = IF inserting THEN Append(subscriptions, object)
                          ELSE IF sends THEN UpdateColumns(subscriptions, object, columns)
                          ELSE <<>>,
                   !.wrote = sends]]
        /\ UNCHANGED <<store, last, calc>>

\* Where a request goes once it holds the settings row.
AfterSettings(session) ==
    IF session.op = "monetisation_overview" THEN Ended(session, "200")
    ELSE [session EXCEPT !.pc = "select_owner"]

\* The select of get_or_create_platform_settings and its test for None.
SettingsSelected(session) ==
    IF settings_table # <<>>
    THEN AfterSettings([session EXCEPT !.settings = settings_table[1]])
    ELSE [session EXCEPT !.pc = "insert_settings"]

\* get_or_create_platform_settings called by upsert_subscription: its select.
select_settings(s) ==
    /\ sessions[s].pc = "select_settings"
    /\ sessions' = [sessions EXCEPT ![s] = SettingsSelected(sessions[s])]
    /\ UNCHANGED <<store, last, calc>>

\* GET /admin/monetisation: the select of its get_or_create_platform_settings.
monetisation_overview_select(s) ==
    /\ sessions[s].pc = "idle"
    /\ sessions[s].served < MaxRequests
    /\ sessions' = [sessions EXCEPT ![s] =
           SettingsSelected([IdleSession EXCEPT !.op = "monetisation_overview",
                                                !.served = sessions[s].served + 1])]
    /\ UNCHANGED <<store, last, calc>>

\* get_or_create_platform_settings after a select that found no row: add the
\* defaults, commit (which also commits what the session has flushed) and
\* refresh.
insert_settings(s) ==
    LET session == sessions[s]
        settings == [get_or_create_platform_settings(<<>>)[2] EXCEPT
                        !.id = NextId(settings_table)]
    IN  /\ session.pc = "insert_settings"
        /\ MayWrite(s)
        /\ settings_table' = Append(settings_table, settings)
        /\ subscriptions' = IF session.writing THEN session.tx ELSE subscriptions
        /\ sessions' = [sessions EXCEPT ![s] =
               AfterSettings([session EXCEPT !.settings = settings,
                                             !.writing = FALSE,
                                             !.tx = <<>>,
                                             !.wrote = TRUE])]
        /\ UNCHANGED <<creator_plans, creator_subscriptions, niches, last, calc, content>>

\* The owner's creator plan: get_active_creator_subscription for the niche's
\* owner, whose MultipleResultsFound ends the request.
select_owner(s) ==
    LET session == sessions[s]
        niche == ById(niches, session.niche_id)
        owner == IF niche.owner_id # 0
                 THEN get_active_creator_subscription(creator_subscriptions, niche.owner_id)
                 ELSE <<"none", None>>
    IN  /\ session.pc = "select_owner"
        /\ sessions' = [sessions EXCEPT ![s] =
               IF owner[1] = "MultipleResultsFound"
               THEN Ended(session, "MultipleResultsFound")
               ELSE [session EXCEPT
                        !.pc = "commit_metrics",
                        !.creator_plan =
                            IF owner[1] = "one"
                            THEN ById(creator_plans, owner[2].plan_id)
                            ELSE None]]
        /\ UNCHANGED <<store, last, calc>>

\* ensure_subscription_metrics: the metrics assigned to the object, then the
\* commit, whose UPDATE carries the attributes that changed (every metric of
\* a row whose metrics were never written).
commit_metrics(s) ==
    LET session == sessions[s]
        niche == ById(niches, session.niche_id)
        gross_amount == calculate_subscription_totals(
                            niche.newsletter_price, niche.report_price,
                            session.wants_newsletter, session.wants_report)
        billing_cadence == BillingCadence(niche, session.wants_newsletter,
                                          session.wants_report)
        updated == ensure_subscription_metrics(session.subscription, gross_amount,
                                               session.settings, session.creator_plan,
                                               niche.currency_code, billing_cadence)
        columns == IF session.persisted.metrics_written
                   THEN ChangedColumns(updated, session.persisted, MetricColumns)
                   ELSE MetricColumns
        base == IF session.writing THEN session.tx ELSE subscriptions
    IN  /\ session.pc = "commit_metrics"
        /\ columns # {} => MayWrite(s)
        /\ subscriptions' = UpdateColumns(base, updated, columns)
        /\ sessions' = [sessions EXCEPT ![s] =
               Ended([session EXCEPT !.subscription = updated,
                                     !.wrote = session.wrote \/ columns # {}],
                     "303")]
        /\ UNCHANGED <<settings_table, creator_plans, creator_subscriptions, niches,
                       last, calc, content>>

SelectSubscription(s) ==
    \E user_id \in Subscribers, niche_id \in ConcurrentNicheIds,
       wants_newsletter \in BOOLEAN, wants_report \in BOOLEAN :
        select_subscription(s, user_id, niche_id, wants_newsletter, wants_report)

InitConcurrent ==
    /\ InitStore
    /\ last = Idle
    /\ calc = NoCall
    /\ sessions = [s \in ClientSessions |-> IdleSession]

NextConcurrent ==
    \E s \in ClientSessions :
        \/ SelectSubscription(s)
        \/ flush_subscription(s)
        \/ select_settings(s)
        \/ monetisation_overview_select(s)
        \/ insert_settings(s)
        \/ select_owner(s)
        \/ commit_metrics(s)

SpecConcurrent == InitConcurrent /\ [][NextConcurrent]_vars

----------------------------------------------------------------------------
(* Claims about requests in flight (SpecConcurrent) *)

\* C12: get_or_create_platform_settings is safe to call concurrently: under
\* every interleaving of callers, each in its own session, that start on an
\* empty settings table, there is never more than one settings row.
C12_OneSettingsRowUnderConcurrency == Len(settings_table) <= 1

\* C14: within one upsert_subscription every read of shared state happens
\* before the request's first write: a request that is about to read the
\* platform settings or the owner's creator plan has sent no INSERT or UPDATE.
C14_ReadsBeforeFirstWrite ==
    \A s \in ClientSessions :
        (/\ sessions[s].op = "upsert_subscription"
         /\ sessions[s].pc \in {"select_settings", "select_owner"}) =>
            ~sessions[s].wrote

\* C15: there is at most one Subscription row for a (user_id, niche_id) in
\* every reachable state, whatever the interleaving of concurrent upserts by
\* the same user for the same niche.
C15_OneSubscriptionPerUserAndNiche ==
    \A i, j \in 1..Len(subscriptions) :
        (/\ subscriptions[i].user_id = subscriptions[j].user_id
         /\ subscriptions[i].niche_id = subscriptions[j].niche_id) => i = j

C16_Columns ==
    {"wants_newsletter", "wants_report", "billing_cadence", "gross_amount",
     "platform_fee_amount", "creator_payout_amount", "status"}

C16_Agrees(row, object) == \A c \in C16_Columns : row[c] = object[c]

\* C16: when two upserts of the same existing subscription have both
\* completed, the stored row is the row of one of them as a whole: its
\* flags, cadence, amounts and status all agree with the object one of the
\* two requests committed.
C16_LastWriteWinsAsAWhole ==
    \A s, t \in ClientSessions :
        (/\ s # t
         /\ sessions[s].pc = "idle" /\ sessions[t].pc = "idle"
         /\ sessions[s].op = "upsert_subscription" /\ sessions[t].op = "upsert_subscription"
         /\ sessions[s].outcome = "303" /\ sessions[t].outcome = "303"
         /\ sessions[s].loaded_id # 0
         /\ sessions[s].loaded_id = sessions[t].loaded_id) =>
            LET row == ById(subscriptions, sessions[s].loaded_id)
            IN  \/ C16_Agrees(row, sessions[s].subscription)
                \/ C16_Agrees(row, sessions[t].subscription)

----------------------------------------------------------------------------
(* get_active_creator_subscription, called on drawn tables *)

\* The ids of the creator subscription rows of a drawn table, the users that
\* hold them and the statuses a row takes.
CreatorRowIds == 1..3

CreatorUsers == {2, 3}

CreatorStatuses == {"active", "trialing", "canceled"}

\* The tables of one row per id, started at distinct times.
CreatorTables ==
    {[i \in CreatorRowIds |->
        [id |-> i, user_id |-> user[i], plan_id |-> 1, status |-> status[i],
         started_at |-> started[i]]] :
        user \in [CreatorRowIds -> CreatorUsers],
        status \in [CreatorRowIds -> CreatorStatuses],
        started \in {f \in [CreatorRowIds -> CreatorRowIds] :
                        \A i, j \in CreatorRowIds : f[i] = f[j] => i = j}}

InitCreator ==
    /\ settings_table = <<>>
    /\ creator_plans = InitialCreatorPlans
    /\ creator_subscriptions \in CreatorTables
    /\ niches = InitialNiches
    /\ subscriptions = <<>>
    /\ newsletter_issues = <<>>
    /\ report_issues = <<>>
    /\ news_articles = <<>>
    /\ last = Idle
    /\ calc = NoCall
    /\ sessions = NoSessions

\* A call of get_active_creator_subscription; calc.result is
\* <<user_id, outcome, row>>.
CallGetActiveCreatorSubscription ==
    \E user_id \in CreatorUsers :
        /\ calc' = [NoCall EXCEPT
                       !.fn = "get_active_creator_subscription",
                       !.result = <<user_id>> \o
                           get_active_creator_subscription(creator_subscriptions, user_id)]
        /\ UNCHANGED <<store, last, sessions>>

NextCreator == CallGetActiveCreatorSubscription

SpecCreator == InitCreator /\ [][NextCreator]_vars

----------------------------------------------------------------------------
(* Claims about get_active_creator_subscription (SpecCreator) *)

\* The rows of the user that are active or trialing.
C17_Qualifying(user_id) ==
    {i \in 1..Len(creator_subscriptions) :
        /\ creator_subscriptions[i].user_id = user_id
        /\ creator_subscriptions[i].status \in {"active", "trialing"}}

\* C17: for a user with no, one or several active or trialing creator
\* subscriptions, get_active_creator_subscription returns the active or
\* trialing one with the greatest started_at and none when there is none; it
\* never fails because several qualify.
C17_ReturnsLatestActive ==
    calc.fn = "get_active_creator_subscription" =>
        LET qualifying == C17_Qualifying(calc.result[1])
        IN  /\ qualifying = {} => (calc.result[2] = "none" /\ IsNone(calc.result[3]))
            /\ qualifying # {} =>
                   /\ calc.result[2] = "one"
                   /\ \E i \in qualifying :
                          /\ calc.result[3] = creator_subscriptions[i]
                          /\ \A j \in qualifying :
                                 creator_subscriptions[j].started_at
                                     <= creator_subscriptions[i].started_at

----------------------------------------------------------------------------
(* Subscription upserts over niches whose owners and subscriber hold plans *)

\* Niche 1 is owned by user 2, niche 2 has no owner, niche 3 is owned by
\* user 4.
OwnedNiches ==
    << [id |-> 1, owner_id |-> 2, newsletter_price |-> Dec2(50),
        report_price |-> Dec2(1000), currency_code |-> "GBP",
        newsletter_cadence |-> "weekly", report_cadence |-> "quarterly"],
       [id |-> 2, owner_id |-> 0, newsletter_price |-> Dec2(50),
        report_price |-> Dec2(1000), currency_code |-> "GBP",
        newsletter_cadence |-> "weekly", report_cadence |-> "quarterly"],
       [id |-> 3, owner_id |-> 4, newsletter_price |-> Dec2(50),
        report_price |-> Dec2(1000), currency_code |-> "GBP",
        newsletter_cadence |-> "weekly", report_cadence |-> "quarterly"] >>

OwnerCreatorPlans ==
    << [id |-> 1, slug |-> <<"p", "r", "o">>, monthly_fee |-> Dec2(900),
        currency_code |-> "GBP", max_niches |-> 1,
        platform_fee_discount_percent |-> Dec2(500)],
       [id |-> 2, slug |-> <<"m", "a", "x">>, monthly_fee |-> Dec2(900),
        currency_code |-> "GBP", max_niches |-> 1,
        platform_fee_discount_percent |-> Dec2(1000)] >>

\* The subscriber (user 1) holds an active subscription to plan 2; owner 2 a
\* canceled one to plan 2 and a trialing one to plan 1; owner 4 a canceled
\* one to plan 1.
OwnerCreatorSubscriptions ==
    << [id |-> 1, user_id |-> 1, plan_id |-> 2, status |-> "active", started_at |-> 1],
       [id |-> 2, user_id |-> 2, plan_id |-> 2, status |-> "canceled", started_at |-> 3],
       [id |-> 3, user_id |-> 2, plan_id |-> 1, status |-> "trialing", started_at |-> 2],
       [id |-> 4, user_id |-> 4, plan_id |-> 1, status |-> "canceled", started_at |-> 1] >>

InitOwner ==
    /\ settings_table = <<>>
    /\ creator_plans = OwnerCreatorPlans
    /\ creator_subscriptions = OwnerCreatorSubscriptions
    /\ niches = OwnedNiches
    /\ subscriptions = <<>>
    /\ newsletter_issues = <<>>
    /\ report_issues = <<>>
    /\ news_articles = <<>>
    /\ last = Idle
    /\ calc = NoCall
    /\ sessions = NoSessions

\* POST /admin/monetisation/plan for plan 1, the plan of owner 2.
UpdateCreatorPlan ==
    \E discount \in DiscountInputs :
        upsert_creator_plan(1, PlanSlug, Dec2(900), "gbp", 1, discount)

NextOwner ==
    \/ UpsertSubscription
    \/ UpdatePlatformSettings
    \/ UpdateCreatorPlan

SpecOwner == InitOwner /\ [][NextOwner]_vars

----------------------------------------------------------------------------
(* Claims about whose plan discounts the fee (SpecOwner) *)

\* C18: the split an upsert stores is the split of its gross amount under the
\* settings as they are at the upsert and the plan of the niche OWNER's
\* active or trialing creator subscription, not the subscriber's; a niche
\* without owner, or whose owner has no such subscription, gets no discount.
C18_SplitUsesOwnersPlan ==
    UpsertServed =>
        LET owned == {i \in 1..Len(creator_subscriptions) :
                         /\ ServedNiche.owner_id # 0
                         /\ creator_subscriptions[i].user_id = ServedNiche.owner_id
                         /\ creator_subscriptions[i].status \in {"active", "trialing"}}
            plan == IF owned = {} THEN None
                    ELSE ById(creator_plans,
                              creator_subscriptions[CHOOSE i \in owned : TRUE].plan_id)
            split == calculate_revenue_split(ServedRow.gross_amount, settings_table[1], plan)
        IN  /\ Cardinality(owned) <= 1
            /\ ServedRow.platform_fee_amount = split[1]
            /\ ServedRow.creator_payout_amount = split[2]

\* C18 witness: niche 1, both items, at the default settings, after the
\* owner's plan got the discount -5.00: the fee is 10.50 at 15.00 + 5.00
\* percent, not at the subscriber's 15.00 - 10.00 percent; next to it an
\* upsert for niche 3, whose owner's only subscription is canceled, was
\* charged the undiscounted 15.00 percent.
C18_Witness ==
    /\ UpsertServed
    /\ last.niche_id = 1
    /\ settings_table[1].platform_fee_percent = Dec2(1500)
    /\ ById(creator_plans, 1).platform_fee_discount_percent = Dec2(-500)
    /\ ById(creator_plans, 2).platform_fee_discount_percent = Dec2(1000)
    /\ ServedRow.gross_amount = Dec2(1050)
    /\ ServedRow.platform_fee_amount = Dec2(210)
    /\ \E i \in 1..Len(subscriptions) :
           /\ subscriptions[i].niche_id = 3
           /\ subscriptions[i].gross_amount = Dec2(1050)
           /\ subscriptions[i].platform_fee_amount = Dec2(158)

----------------------------------------------------------------------------
(* The creator plans, upserted from the admin form *)

\* The slugs the form sends: "Pro Tier", " Pro T " and "Pro".
SlugInputs == {<<"P", "r", "o", " ", "T", "i", "e", "r">>, PlanSlug, <<"P", "r", "o">>}

MaxNichesInputs == {-2, 0, 3}

MonetisationUpsertPlan ==
    \E plan_id \in 0..(MaxPlans + 1), slug \in SlugInputs,
       max_niches \in MaxNichesInputs, discount \in DiscountInputs :
        /\ (plan_id = 0 /\ ~SlugTaken(creator_plans, NormalizeSlug(slug))) =>
               Len(creator_plans) < MaxPlans
        /\ upsert_creator_plan(plan_id, slug, Dec2(900), "gbp", max_niches, discount)

NextPlans == MonetisationUpsertPlan

SpecPlans == Init /\ [][NextPlans]_vars

----------------------------------------------------------------------------
(* Claims about the creator plans (SpecPlans) *)

\* The normalised form of each slug sent: "pro-tier", "pro-t" and "pro".
C19_Expected(slug) ==
    CASE slug = <<"P", "r", "o", " ", "T", "i", "e", "r">> ->
             <<"p", "r", "o", "-", "t", "i", "e", "r">>
      [] slug = <<" ", "P", "r", "o", " ", "T", " ">> -> <<"p", "r", "o", "-", "t">>
      [] slug = <<"P", "r", "o">> -> <<"p", "r", "o">>

C20_UnknownPlanIdChangesNothing ==
    [][ \A plan_id \in 1..(MaxPlans + 1), slug \in SlugInputs,
           max_niches \in MaxNichesInputs, discount \in DiscountInputs :
            (/\ \A i \in 1..Len(creator_plans) : creator_plans[i].id # plan_id
             /\ upsert_creator_plan(plan_id, slug, Dec2(900), "gbp", max_niches, discount)) =>
                /\ creator_plans' = creator_plans
                /\ last'.outcome = "404"
      ]_vars

\* C20 witness: a plan_id that matches none of the two stored plans was
\* answered 404.
C20_Witness ==
    /\ last = Served("upsert_creator_plan", 0, 0, "404")
    /\ Len(creator_plans) = 2
    /\ creator_plans[2].slug = <<"p", "r", "o", "-", "t">>

\* C21: over any sequence of upsert_creator_plan calls the number of stored
\* plans never decreases: a call with the id of a stored plan overwrites the
\* fields of that plan where it is, keeping its id, its slug and the plan
\* count and leaving the other plans alone, and the count only grows by a
\* call without plan_id, by exactly one.  (A call with plan_id does not read
\* the slug: one slug stands for all.)
C21_PlanCountNeverDecreases ==
    [][ /\ Len(creator_plans') >= Len(creator_plans)
        /\ \A plan_id \in 1..(MaxPlans + 1),
              max_niches \in MaxNichesInputs, discount \in DiscountInputs :
               (/\ \E i \in 1..Len(creator_plans) : creator_plans[i].id = plan_id
                /\ upsert_creator_plan(plan_id, PlanSlug, Dec2(900), "gbp", max_niches, discount)) =>
                   /\ Len(creator_plans') = Len(creator_plans)
                   /\ \A i \in 1..Len(creator_plans) :
                          IF creator_plans[i].id = plan_id
                          THEN /\ creator_plans'[i].id = plan_id
                               /\ creator_plans'[i].slug = creator_plans[i].slug
                               /\ creator_plans'[i].platform_fee_discount_percent = discount
                          ELSE creator_plans'[i] = creator_plans[i]
        /\ Len(creator_plans') > Len(creator_plans) =>
               /\ Len(creator_plans') = Len(creator_plans) + 1
               /\ \E slug \in SlugInputs, max_niches \in MaxNichesInputs,
                     discount \in DiscountInputs :
                      upsert_creator_plan(0, slug, Dec2(900), "gbp", max_niches, discount)
      ]_vars

\* C21 witness: the first plan was overwritten where it is, behind it the
\* plan created before.
C21_Witness ==
    /\ last = Served("upsert_creator_plan", 0, 0, "303")
    /\ Len(creator_plans) = 2
    /\ creator_plans[1].id = 1
    /\ creator_plans[1].slug = <<"p", "r", "o">>
    /\ creator_plans[1].platform_fee_discount_percent = Dec2(-500)
    /\ creator_plans[1].max_niches = 3
    /\ creator_plans[2].platform_fee_discount_percent = Dec2(1500)

\* C22: in every state reached by upsert_creator_plan calls no two stored
\* plans have the same slug; a call without plan_id whose normalised slug a
\* stored plan has already does not leave two plans with that slug.
C22_SlugsAreUnique ==
    \A i, j \in 1..Len(creator_plans) :
        creator_plans[i].slug = creator_plans[j].slug => i = j

\* C22 witness: with "pro" and "pro-tier" stored, a call without plan_id for
\* a slug that is stored was refused.
C22_Witness ==
    /\ last = Served("upsert_creator_plan", 0, 0, "IntegrityError")
    /\ Len(creator_plans) = 2
    /\ creator_plans[1].slug = <<"p", "r", "o">>
    /\ creator_plans[2].slug = <<"p", "r", "o", "-", "t", "i", "e", "r">>

\* C23: after any sequence of upsert_creator_plan calls, whatever integer
\* max_niches they were given (zero and negative ones too), every stored plan
\* has max_niches >= 1: the plan a call writes stores 1 for an input below 1
\* and the input itself otherwise.  (A call with plan_id does not read the
\* slug: one slug stands for all.)
C23_MaxNichesAtLeastOne ==
    [][ /\ \A i \in 1..Len(creator_plans) : creator_plans[i].max_niches >= 1
        /\ \A i \in 1..Len(creator_plans') : creator_plans'[i].max_niches >= 1
        /\ last'.outcome = "303" =>
               \A plan_id \in 0..MaxPlans, max_niches \in MaxNichesInputs,
                  discount \in DiscountInputs :
                   \A slug \in IF plan_id = 0 THEN SlugInputs ELSE {PlanSlug} :
                       upsert_creator_plan(plan_id, slug, Dec2(900), "gbp", max_niches, discount) =>
                           \E i \in 1..Len(creator_plans') :
                               /\ creator_plans'[i].id =
                                      (IF plan_id = 0 THEN Len(creator_plans') ELSE plan_id)
                               /\ creator_plans'[i].max_niches =
                                      (IF max_niches < 1 THEN 1 ELSE max_niches)
      ]_vars

\* C23 witness: the first plan was given max_niches 3 and stores 3; the second
\* was created with max_niches 0 or -2 and stores 1.
C23_Witness ==
    /\ last = Served("upsert_creator_plan", 0, 0, "303")
    /\ Len(creator_plans) = 2
    /\ creator_plans[1].max_niches = 3
    /\ creator_plans[2].max_niches = 1

----------------------------------------------------------------------------
(* The listing of the creator plans *)

\* The rows as they are stored, in the order of their insertion.
ListInStoredOrder(table) == {[i \in 1..Len(table) |-> i]}

\* select(CreatorPlan).order_by(CreatorPlan.monthly_fee), .scalars().all():
\* the orders the statement may return the rows in, each a sequence of the
\* rows' positions in the table.  Every row comes once and the monthly fees
\* ascend; the order of rows of one fee is the database's choice.
list_creator_plans(table) ==
    {ord \in [1..Len(table) -> 1..Len(table)] :
        /\ \A i, j \in 1..Len(table) : ord[i] = ord[j] => i = j
        /\ \A i, j \in 1..Len(table) :
               i < j => table[ord[i]].monthly_fee <= table[ord[j]].monthly_fee}

\* The monthly fees the plan form sends: 5.00, 9.00 and 20.00.
FeeInputs == {Dec2(500), Dec2(900), Dec2(2000)}

\* POST /admin/monetisation/plans with one of the fees.
UpsertPlanWithFee ==
    \E plan_id \in 0..MaxPlans, slug \in SlugInputs, monthly_fee \in FeeInputs :
        /\ plan_id = 0 => Len(creator_plans) < MaxPlans
        /\ upsert_creator_plan(plan_id, slug, monthly_fee, "gbp", 3, Dec2(1500))

\* A call of list_creator_plans; calc.result is the list returned.
ListCreatorPlans ==
    \E ord \in list_creator_plans(creator_plans) :
        /\ calc' = [NoCall EXCEPT
                       !.fn = "list_creator_plans",
                       !.result = [i \in 1..Len(creator_plans) |-> creator_plans[ord[i]]]]
        /\ UNCHANGED <<store, last, sessions>>

NextList == UpsertPlanWithFee \/ ListCreatorPlans

SpecList == Init /\ [][NextList]_vars

----------------------------------------------------------------------------
(* Claims about list_creator_plans (SpecList) *)

\* C24: list_creator_plans returns every stored plan exactly once, in an
\* order along which monthly_fee never decreases, whatever order the plans
\* were created and updated in.
C24_ListedOnceByAscendingFee ==
    [][ calc' # calc =>
            LET plans == calc'.result
            IN  /\ Len(plans) = Len(creator_plans)
                /\ \A i \in 1..Len(creator_plans) :
                       Cardinality({j \in 1..Len(plans) : plans[j] = creator_plans[i]}) = 1
                /\ \A i, j \in 1..Len(plans) :
                       i < j => plans[i].monthly_fee <= plans[j].monthly_fee
      ]_vars

\* C24 witness: the plan created second costs 5.00 and is listed before the
\* first, which costs 9.00.
C24_Witness ==
    /\ calc.fn = "list_creator_plans"
    /\ Len(creator_plans) = 2
    /\ creator_plans[1].monthly_fee = Dec2(900)
    /\ creator_plans[2].monthly_fee = Dec2(500)
    /\ calc.result = <<creator_plans[2], creator_plans[1]>>

----------------------------------------------------------------------------
(* The niches: app/services/niche_service and app/routers/niches *)

\* The users table: the niche handlers read it and never write it.
users ==
    << [id |-> 1, role |-> "subscriber"],
       [id |-> 2, role |-> "niche_admin"],
       [id |-> 3, role |-> "niche_admin"],
       [id |-> 4, role |-> "admin"] >>

\* require_role([UserRole.ADMIN, UserRole.NICHE_ADMIN])
require_role(user) == user.role \in {"admin", "niche_admin"}

\* An access rule that lets every niche administrator manage every niche.
AccessForEveryManager(niche, user) == TRUE

\* _ensure_management_access: TRUE when it returns, FALSE when it raises 403.
_ensure_management_access(niche, user) ==
    user.role = "admin" \/ niche.owner_id = user.id

\* A count that sees no niche.
CountNoNiches(table, user_id) == 0

\* count_active_niches_for_user: select count(Niche.id) where owner_id == user_id
count_active_niches_for_user(table, user_id) ==
    Len(SelectSeq(table, LAMBDA r : r.owner_id = user_id))

\* _creator_plan_context: <<outcome, plan, plan_locked>>; the outcome is
\* "MultipleResultsFound" when get_active_creator_subscription raises.
_creator_plan_context(user) ==
    IF user.role = "admin" THEN <<"ok", None, FALSE>>
    ELSE
    LET got == get_active_creator_subscription(creator_subscriptions, user.id)
        plan == IF got[1] = "one" THEN ById(creator_plans, got[2].plan_id) ELSE None
    IN  IF got[1] = "MultipleResultsFound" THEN <<"MultipleResultsFound", None, TRUE>>
        ELSE IF IsNone(plan) THEN <<"ok", None, TRUE>>
        ELSE LET owned_niches == count_active_niches_for_user(niches, user.id)
                 remaining == IF plan.max_niches - owned_niches > 0
                              THEN plan.max_niches - owned_niches ELSE 0
             IN  <<"ok", plan, remaining <= 0>>

\* A uniqueness check that compares the names as they are written.
EnsureUniqueExactName(table, name, exclude_ids) ==
    LET rows == SelectSeq(table, LAMBDA r : r.name = Strip(name) /\ r.id \notin exclude_ids)
    IN  CASE Len(rows) = 0 -> "ok"
          [] Len(rows) = 1 -> "NicheNameConflictError"
          [] OTHER -> "MultipleResultsFound"

\* _ensure_unique_name: the rows whose lower(name) is lower(name.strip()),
\* the excluded ids left out; scalar_one_or_none() on them.
_ensure_unique_name(table, name, exclude_ids) ==
    LET normalized_name == Strip(name)
        rows == SelectSeq(table, LAMBDA r : /\ Lower(r.name) = Lower(normalized_name)
                                            /\ r.id \notin exclude_ids)
    IN  CASE Len(rows) = 0 -> "ok"
          [] Len(rows) = 1 -> "NicheNameConflictError"
          [] OTHER -> "MultipleResultsFound"

\* The unique index on niches.name: a row other than own_id stores the name.
NameTaken(table, name, own_id) ==
    \E i \in 1..Len(table) : table[i].name = name /\ table[i].id # own_id

\* The payload without name.
NoName == <<"-">>

\* niche_service.create_niche: <<outcome, table>>.  The payload's prices,
\* currency and cadences are the defaults of the form.
service_create_niche(table, name, owner_id) ==
    LET cleaned == Strip(name)
        unique == _ensure_unique_name(table, cleaned, {})
        niche == [id |-> NextId(table), owner_id |-> owner_id, name |-> cleaned,
                  newsletter_price |-> Dec2(500), report_price |-> 0,
                  currency_code |-> "GBP",
                  newsletter_cadence |-> "monthly", report_cadence |-> "monthly"]
    IN  IF unique # "ok" THEN <<unique, table>>
        ELSE IF NameTaken(table, cleaned, niche.id) THEN <<"IntegrityError", table>>
        ELSE <<"ok", Append(table, niche)>>

\* niche_service.update_niche: <<outcome, table>>.  The name is checked only
\* when it is not empty and differs from the niche's.
service_update_niche(table, niche, name) ==
    LET name_update == Strip(name)
        unique == IF name_update # <<>> /\ name_update # niche.name
                  THEN _ensure_unique_name(table, name_update, {niche.id})
                  ELSE "ok"
    IN  IF unique # "ok" THEN <<unique, table>>
        ELSE IF NameTaken(table, name_update, niche.id) THEN <<"IntegrityError", table>>
        ELSE <<"ok", Replace(table, [niche EXCEPT !.name = name_update])>>

\* A deletion that leaves the subscriptions of the niche behind.
DeleteKeepingSubscriptions(niche) ==
    LET newsletter_issue_ids ==
            {newsletter_issues[i].id : i \in {j \in 1..Len(newsletter_issues) :
                                                 newsletter_issues[j].niche_id = niche.id}}
    IN  /\ news_articles' = SelectSeq(news_articles,
                                LAMBDA r : r.newsletter_issue_id \notin newsletter_issue_ids)
        /\ newsletter_issues' = SelectSeq(newsletter_issues, LAMBDA r : r.niche_id # niche.id)
        /\ report_issues' = SelectSeq(report_issues, LAMBDA r : r.niche_id # niche.id)
        /\ subscriptions' = subscriptions
        /\ niches' = SelectSeq(niches, LAMBDA r : r.id # niche.id)

\* niche_service.delete_niche: the articles of the niche's newsletter issues,
\* its newsletter issues, its report issues and its subscriptions are deleted,
\* then the niche, in one transaction.
service_delete_niche(niche) ==
    LET newsletter_issue_ids ==
            {newsletter_issues[i].id : i \in {j \in 1..Len(newsletter_issues) :
                                                 newsletter_issues[j].niche_id = niche.id}}
    IN  /\ news_articles' = SelectSeq(news_articles,
                                LAMBDA r : r.newsletter_issue_id \notin newsletter_issue_ids)
        /\ newsletter_issues' = SelectSeq(newsletter_issues, LAMBDA r : r.niche_id # niche.id)
        /\ report_issues' = SelectSeq(report_issues, LAMBDA r : r.niche_id # niche.id)
        /\ subscriptions' = SelectSeq(subscriptions, LAMBDA r : r.niche_id # niche.id)
        /\ niches' = SelectSeq(niches, LAMBDA r : r.id # niche.id)

\* The answer of a niche request that writes nothing.
Answered(op, user_id, niche_id, outcome) ==
    /\ last' = Served(op, user_id, niche_id, outcome)
    /\ UNCHANGED <<store, calc, sessions>>

\* The answer of a niche request that wrote the niches table.
NichesWritten(op, user_id, niche_id, outcome, table) ==
    /\ niches' = table
    /\ last' = Served(op, user_id, niche_id, outcome)
    /\ UNCHANGED <<settings_table, creator_plans, creator_subscriptions, subscriptions,
                   content, calc, sessions>>

\* The answer of a request that deleted the niche.
NicheDeleted(op, user_id, niche, outcome) ==
    /\ service_delete_niche(niche)
    /\ last' = Served(op, user_id, niche.id, outcome)
    /\ UNCHANGED <<settings_table, creator_plans, creator_subscriptions, calc, sessions>>

\* POST /niches/manage/create
create_niche(user, name) ==
    LET context == _creator_plan_context(user)
        made == service_create_niche(niches, name, user.id)
    IN  IF ~require_role(user) THEN Answered("create_niche", user.id, 0, "403 role")
        ELSE IF context[1] # "ok" THEN Answered("create_niche", user.id, 0, context[1])
        ELSE IF context[3] THEN Answered("create_niche", user.id, 0, "400 plan")
        ELSE IF made[1] = "NicheNameConflictError"
        THEN Answered("create_niche", user.id, 0, "400 NicheNameConflictError")
        ELSE IF made[1] # "ok" THEN Answered("create_niche", user.id, 0, made[1])
        ELSE NichesWritten("create_niche", user.id, NextId(niches), "303", made[2])

\* POST /niches/api
api_create_niche(user, name) ==
    LET context == _creator_plan_context(user)
        made == service_create_niche(niches, name, user.id)
    IN  IF ~require_role(user) THEN Answered("api_create_niche", user.id, 0, "403 role")
        ELSE IF context[1] # "ok" THEN Answered("api_create_niche", user.id, 0, context[1])
        ELSE IF context[3] THEN Answered("api_create_niche", user.id, 0, "403 plan")
        ELSE IF made[1] = "NicheNameConflictError"
        THEN Answered("api_create_niche", user.id, 0, "400 NicheNameConflictError")
        ELSE IF made[1] # "ok" THEN Answered("api_create_niche", user.id, 0, made[1])
        ELSE NichesWritten("api_create_niche", user.id, NextId(niches), "201", made[2])

\* POST /niches/manage/{niche_id}/edit
update_niche(user, niche_id, name) ==
    LET niche == ById(niches, niche_id)
        context == _creator_plan_context(user)
        updated == service_update_niche(niches, niche, name)
    IN  IF ~require_role(user) THEN Answered("update_niche", user.id, niche_id, "403 role")
        ELSE IF IsNone(niche) THEN Answered("update_niche", user.id, niche_id, "404")
        ELSE IF ~_ensure_management_access(niche, user)
        THEN Answered("update_niche", user.id, niche_id, "403 access")
        ELSE IF context[1] # "ok" THEN Answered("update_niche", user.id, niche_id, context[1])
        ELSE IF updated[1] = "NicheNameConflictError"
        THEN Answered("update_niche", user.id, niche_id, "400 NicheNameConflictError")
        ELSE IF updated[1] # "ok" THEN Answered("update_niche", user.id, niche_id, updated[1])
        ELSE NichesWritten("update_niche", user.id, niche_id, "303", updated[2])

\* PUT /niches/api/{niche_id}; the payload holds the name or nothing.
api_update_niche(user, niche_id, name) ==
    LET niche == ById(niches, niche_id)
        updated == service_update_niche(niches, niche, name)
    IN  IF ~require_role(user) THEN Answered("api_update_niche", user.id, niche_id, "403 role")
        ELSE IF name = NoName THEN Answered("api_update_niche", user.id, niche_id, "400 empty")
        ELSE IF IsNone(niche) THEN Answered("api_update_niche", user.id, niche_id, "404")
        ELSE IF ~_ensure_management_access(niche, user)
        THEN Answered("api_update_niche", user.id, niche_id, "403 access")
        ELSE IF updated[1] = "NicheNameConflictError"
        THEN Answered("api_update_niche", user.id, niche_id, "400 NicheNameConflictError")
        ELSE IF updated[1] # "ok" THEN Answered("api_update_niche", user.id, niche_id, updated[1])
        ELSE NichesWritten("api_update_niche", user.id, niche_id, "200", updated[2])

\* POST /niches/manage/{niche_id}/delete; confirmed is whether the
\* confirmation text, stripped and upper-cased, is "DELETE".
delete_niche(user, niche_id, confirmed) ==
    LET niche == ById(niches, niche_id)
    IN  IF ~require_role(user) THEN Answered("delete_niche", user.id, niche_id, "403 role")
        ELSE IF IsNone(niche) THEN Answered("delete_niche", user.id, niche_id, "404")
        ELSE IF ~_ensure_management_access(niche, user)
        THEN Answered("delete_niche", user.id, niche_id, "403 access")
        ELSE IF ~confirmed
        THEN Answered("delete_niche", user.id, niche_id, "400 confirmation")
        ELSE NicheDeleted("delete_niche", user.id, niche, "303")

\* DELETE /niches/api/{niche_id}
api_delete_niche(user, niche_id) ==
    LET niche == ById(niches, niche_id)
    IN  IF ~require_role(user) THEN Answered("api_delete_niche", user.id, niche_id, "403 role")
        ELSE IF IsNone(niche) THEN Answered("api_delete_niche", user.id, niche_id, "404")
        ELSE IF ~_ensure_management_access(niche, user)
        THEN Answered("api_delete_niche", user.id, niche_id, "403 access")
        ELSE NicheDeleted("api_delete_niche", user.id, niche, "204")

----------------------------------------------------------------------------
(* The niche requests, served one after the other *)

\* The niche ids in use are 1..MaxNiches.
MaxNiches == 3

\* The names the requests send: "P", " p ", "T" and " ".
NameInputs == {<<"P">>, <<" ", "p", " ">>, <<"T">>, <<" ">>}

FewNames == {<<"P">>, <<" ", "p", " ">>}

ManagedPlans ==
    << [id |-> 1, slug |-> <<"p", "r", "o">>, monthly_fee |-> Dec2(900),
        currency_code |-> "GBP", max_niches |-> 2,
        platform_fee_discount_percent |-> Dec2(500)] >>

\* User 2 holds the plan; the subscription of user 3 is canceled.
ManagedCreatorSubscriptions ==
    << [id |-> 1, user_id |-> 2, plan_id |-> 1, status |-> "active", started_at |-> 1],
       [id |-> 2, user_id |-> 3, plan_id |-> 1, status |-> "canceled", started_at |-> 1] >>

ManagedNiches ==
    << [id |-> 1, owner_id |-> 2, name |-> <<"P">>,
        newsletter_price |-> Dec2(500), report_price |-> Dec2(1000), currency_code |-> "GBP",
        newsletter_cadence |-> "weekly", report_cadence |-> "quarterly"],
       [id |-> 2, owner_id |-> 3, name |-> <<"T">>,
        newsletter_price |-> Dec2(500), report_price |-> 0, currency_code |-> "USD",
        newsletter_cadence |-> "monthly", report_cadence |-> "annual"] >>

PublishedNewsletterIssues ==
    << [id |-> 1, niche_id |-> 1], [id |-> 2, niche_id |-> 2], [id |-> 3, niche_id |-> 1] >>

PublishedReportIssues == << [id |-> 1, niche_id |-> 1], [id |-> 2, niche_id |-> 2] >>

PublishedNewsArticles ==
    << [id |-> 1, newsletter_issue_id |-> 1], [id |-> 2, newsletter_issue_id |-> 2],
       [id |-> 3, newsletter_issue_id |-> 3], [id |-> 4, newsletter_issue_id |-> 2] >>

InitNiches ==
    /\ settings_table = get_or_create_platform_settings(<<>>)[1]
    /\ creator_plans = ManagedPlans
    /\ creator_subscriptions = ManagedCreatorSubscriptions
    /\ niches = ManagedNiches
    /\ subscriptions = <<>>
    /\ newsletter_issues = PublishedNewsletterIssues
    /\ report_issues = PublishedReportIssues
    /\ news_articles = PublishedNewsArticles
    /\ last = Idle
    /\ calc = NoCall
    /\ sessions = NoSessions

\* The ids stay in 1..MaxNiches: a request that would insert a higher one is
\* not sent.
WithinNicheIds == \A i \in 1..Len(niches') : niches'[i].id <= MaxNiches

\* The requests, from the users of the set requesters and with the names of
\* the set names.
CreateNiche(requesters, names) ==
    \E i \in requesters, name \in names :
        create_niche(users[i], name) /\ WithinNicheIds

ApiCreateNiche(requesters, names) ==
    \E i \in requesters, name \in names :
        api_create_niche(users[i], name) /\ WithinNicheIds

UpdateNiche(requesters, names) ==
    \E i \in requesters, niche_id \in 1..MaxNiches, name \in names :
        update_niche(users[i], niche_id, name)

ApiUpdateNiche(requesters, names) ==
    \E i \in requesters, niche_id \in 1..MaxNiches, name \in names \cup {NoName} :
        api_update_niche(users[i], niche_id, name)

DeleteNiche(requesters) ==
    \E i \in requesters, niche_id \in 1..MaxNiches, confirmed \in BOOLEAN :
        delete_niche(users[i], niche_id, confirmed)

ApiDeleteNiche(requesters) ==
    \E i \in requesters, niche_id \in 1..MaxNiches :
        api_delete_niche(users[i], niche_id)

SubscribeToNiche ==
    \E niche_id \in 1..MaxNiches, wants_report \in BOOLEAN :
        upsert_subscription(1, niche_id, TRUE, wants_report)

\* Every user sends every request; the names are "P" and " p ".
NextNiches ==
    \/ CreateNiche(1..Len(users), FewNames)
    \/ ApiCreateNiche(1..Len(users), FewNames)
    \/ UpdateNiche(1..Len(users), FewNames)
    \/ ApiUpdateNiche(1..Len(users), FewNames)
    \/ DeleteNiche(1..Len(users))
    \/ ApiDeleteNiche(1..Len(users))
    \/ SubscribeToNiche

SpecNiches == InitNiches /\ [][NextNiches]_vars

\* Every user asks for niches under every name; the administrator renames and
\* deletes them.
NextNames ==
    \/ CreateNiche(1..Len(users), NameInputs)
    \/ ApiCreateNiche(1..Len(users), NameInputs)
    \/ UpdateNiche({4}, NameInputs)
    \/ ApiUpdateNiche({4}, NameInputs)
    \/ ApiDeleteNiche({4})

SpecNames == InitNiches /\ [][NextNames]_vars

----------------------------------------------------------------------------
(* Claims about the niche quota (SpecNames) *)

\* The number of niches of the table that the user owns.
C25_Owned(table, user_id) ==
    Cardinality({n \in 1..Len(table) : table[n].owner_id = user_id})

\* The plans of the user's active or trialing creator subscriptions.
C25_Plans(user_id) ==
    {creator_plans[p] : p \in {q \in 1..Len(creator_plans) :
        \E k \in 1..Len(creator_subscriptions) :
            /\ creator_subscriptions[k].user_id = user_id
            /\ creator_subscriptions[k].status \in {"active", "trialing"}
            /\ creator_subscriptions[k].plan_id = creator_plans[q].id}}

\* C25: the niche quota is enforced on creation.  A create-niche request
\* (form or API) of a user who is no admin creates no niche and is rejected
\* when the user has no active or trialing creator subscription with a plan or
\* owns max_niches niches of the plan already; so, under an unchanged plan, a
\* user who is no admin never owns more than max_niches niches.  A request of
\* an admin is never rejected for the plan.
C25_QuotaEnforced ==
    [][ LET creating == last'.op \in {"create_niche", "api_create_niche"}
            limited == last'.outcome \in {"400 plan", "403 plan"}
        IN  /\ \A i \in 1..Len(users) :
                   users[i].role # "admin" =>
                       /\ \A plan \in C25_Plans(i) :
                              /\ C25_Owned(niches, i) <= plan.max_niches
                              /\ C25_Owned(niches', i) <= plan.max_niches
                       /\ (/\ creating
                           /\ last'.user_id = i
                           /\ \/ C25_Plans(i) = {}
                              \/ \E plan \in C25_Plans(i) :
                                     C25_Owned(niches, i) >= plan.max_niches)
                          => (niches' = niches /\ (limited \/ last'.outcome = "403 role"))
            /\ (creating /\ users[last'.user_id].role = "admin") => ~limited
      ]_vars

\* C25 witness: user 2, whose plan allows two niches, owns two and was
\* refused a third by the API; admin 4 owns a niche.
C25_Witness ==
    /\ last = Served("api_create_niche", 2, 0, "403 plan")
    /\ C25_Owned(niches, 2) = 2
    /\ C25_Owned(niches, 4) = 1

----------------------------------------------------------------------------
(* Claims about the niche names (SpecNames) *)

\* A name as the comparison takes it: stripped and lower-cased.
C26_Folded(name) == Lower(Strip(name))

\* A niche other than own_id stores the name, case and surrounding spaces
\* ignored.
C26_Collides(table, name, own_id) ==
    \E n \in 1..Len(table) :
        table[n].id # own_id /\ C26_Folded(table[n].name) = C26_Folded(name)

\* C26: after any sequence of create_niche, update_niche and delete_niche
\* calls no two stored niches have names that are equal when case and
\* surrounding whitespace are ignored; a create or a rename that would collide
\* raises NicheNameConflictError and leaves the store unchanged; an update
\* that keeps the niche's own name is accepted.
C26_NamesStayUnique ==
    [][ /\ \A m, n \in 1..Len(niches') :
               C26_Folded(niches'[m].name) = C26_Folded(niches'[n].name) => m = n
        /\ \A name \in NameInputs :
               (create_niche(users[4], name) /\ C26_Collides(niches, name, 0)) =>
                   /\ last'.outcome = "400 NicheNameConflictError"
                   /\ niches' = niches
        /\ \A name \in NameInputs, niche_id \in 1..MaxNiches :
               (/\ api_update_niche(users[4], niche_id, name)
                /\ ~IsNone(ById(niches, niche_id))) =>
                   /\ C26_Collides(niches, name, niche_id) =>
                          /\ last'.outcome = "400 NicheNameConflictError"
                          /\ niches' = niches
                   /\ Strip(name) = ById(niches, niche_id).name =>
                          /\ last'.outcome = "200"
                          /\ niches' = niches
      ]_vars

----------------------------------------------------------------------------
(* Claims about the niche requests (SpecNiches) *)

\* C27: delete_niche preserves referential integrity.  After it the niche is
\* gone, no Subscription, NewsletterIssue or ReportIssue row references its id
\* and no NewsArticle references one of its newsletter issues, while the rows
\* of the other niches are as they were; so after any sequence of niche and
\* subscription requests every subscription references a stored niche.
C27_DeleteLeavesNoReference ==
    [][ /\ (/\ last'.op \in {"delete_niche", "api_delete_niche"}
            /\ last'.outcome \in {"303", "204"}) =>
               LET id == last'.niche_id
                   issues == {newsletter_issues[i].id :
                                 i \in {j \in 1..Len(newsletter_issues) :
                                           newsletter_issues[j].niche_id = id}}
               IN  /\ \A n \in 1..Len(niches') : niches'[n].id # id
                   /\ \A n \in 1..Len(subscriptions') : subscriptions'[n].niche_id # id
                   /\ \A n \in 1..Len(newsletter_issues') : newsletter_issues'[n].niche_id # id
                   /\ \A n \in 1..Len(report_issues') : report_issues'[n].niche_id # id
                   /\ \A n \in 1..Len(news_articles') :
                          news_articles'[n].newsletter_issue_id \notin issues
                   /\ niches' = SelectSeq(niches, LAMBDA r : r.id # id)
                   /\ subscriptions' = SelectSeq(subscriptions, LAMBDA r : r.niche_id # id)
                   /\ newsletter_issues' =
                          SelectSeq(newsletter_issues, LAMBDA r : r.niche_id # id)
                   /\ report_issues' = SelectSeq(report_issues, LAMBDA r : r.niche_id # id)
                   /\ news_articles' =
                          SelectSeq(news_articles,
                                    LAMBDA r : r.newsletter_issue_id \notin issues)
        /\ \A n \in 1..Len(subscriptions') :
               \E m \in 1..Len(niches') : niches'[m].id = subscriptions'[n].niche_id
      ]_vars

\* C27 witness: niche 1 was deleted by its owner, and with it the
\* subscription made first; the subscription to niche 2, made second, and the
\* content of niche 2 are as they were.
C27_Witness ==
    /\ last = Served("delete_niche", 2, 1, "303")
    /\ Len(subscriptions) = 1
    /\ subscriptions[1].id = 2
    /\ subscriptions[1].niche_id = 2
    /\ newsletter_issues = << [id |-> 2, niche_id |-> 2] >>
    /\ report_issues = << [id |-> 2, niche_id |-> 2] >>
    /\ news_articles = << [id |-> 2, newsletter_issue_id |-> 2],
                          [id |-> 4, newsletter_issue_id |-> 2] >>

\* The request served by the step asks to update or delete a stored niche.
C28_Managing ==
    /\ last'.op \in {"update_niche", "api_update_niche", "delete_niche", "api_delete_niche"}
    /\ ~IsNone(ById(niches, last'.niche_id))

\* The user of the request is an admin or the owner of the niche.
C28_Manager ==
    \/ users[last'.user_id].role = "admin"
    \/ ById(niches, last'.niche_id).owner_id = last'.user_id

\* C28: a niche is updated or deleted, by the form or the API, only when the
\* user of the request has the admin role or owns the niche; any other user,
\* a niche admin who owns other niches too, gets a 403, and the niche and the
\* rows that depend on it stay unchanged.
C28_OthersGet403 ==
    [][ (C28_Managing /\ ~C28_Manager) =>
            /\ last'.outcome \in {"403 role", "403 access"}
            /\ UNCHANGED <<niches, subscriptions, content>>
      ]_vars

\* C28, amended: a niche is updated or deleted only when the user of the
\* request has the admin role or owns the niche; for any other user the niche
\* and the rows that depend on it stay unchanged and the answer is a 403,
\* except for an API update without fields, which is answered 400 before the
\* niche is looked up.
C28_OnlyManagersChangeNiches ==
    [][ (C28_Managing /\ ~C28_Manager) =>
            /\ \/ last'.outcome \in {"403 role", "403 access"}
               \/ last'.op = "api_update_niche" /\ last'.outcome = "400 empty"
            /\ UNCHANGED <<niches, subscriptions, content>>
      ]_vars

\* C28 witness: user 3, a niche admin who owns niche 2, asked the API to
\* rename niche 1 of user 2, to which user 1 is subscribed, and got a 403.
C28_Witness ==
    /\ last = Served("api_update_niche", 3, 1, "403 access")
    /\ \E n \in 1..Len(niches) : niches[n].id = 1 /\ niches[n].owner_id = 2
    /\ \E n \in 1..Len(niches) : niches[n].id = 2 /\ niches[n].owner_id = 3
    /\ \E n \in 1..Len(subscriptions) : subscriptions[n].niche_id = 1

----------------------------------------------------------------------------
(* Claims about the plan discount (SpecCalc) *)

\* C29: for every gross amount, settings and creator plan whose discount is
\* not negative, calculate_revenue_split with the plan returns a platform fee
\* that is at most, and a creator payout that is at least, the one it returns
\* with creator_plan None.
C29_PlanNeverRaisesFee ==
    (/\ SplitReturned
     /\ ~IsNone(calc.creator_plan)
     /\ calc.creator_plan.platform_fee_discount_percent >= 0) =>
        LET without == calculate_revenue_split(calc.gross_amount, calc.settings, None)
        IN  /\ calc.result[1] <= without[1]
            /\ calc.result[2] >= without[2]

----------------------------------------------------------------------------
(* Claims about failed subscription requests (Spec) *)

\* C30: upsert_subscription is all-or-nothing with respect to the store.  A
\* request that fails (404 for the niche, an error while the settings or the
\* owner's creator subscription are loaded or the metrics computed) has
\* created or modified no committed Subscription row, so no committed row
\* carries new flags next to default or stale metric columns.
C30_FailedUpsertCommitsNothing ==
    [][ /\ (last'.op = "upsert_subscription" /\ last'.outcome # "303") =>
               subscriptions' = subscriptions
        /\ \A i \in 1..Len(subscriptions') : subscriptions'[i].metrics_written
      ]_vars

====
